---- MODULE Spec2Model ----
(***************************************************************************)
(* A model of shap/explainers/linear.py: the LinearExplainer constructor,  *)
(* the permutation-sampling transform estimator (_estimate_transforms)     *)
(* with its incremental block-matrix inverse, and shap_values.             *)
(*                                                                         *)
(* Numbers are exact: a float is the pair <<n, d>>, the rational n/d in    *)
(* lowest terms with d > 0, or one of the three non-finite values numpy    *)
(* produces on a division by zero: <<1, 0>> (inf), <<-1, 0>> (-inf) and    *)
(* <<0, 0>> (nan).  Rounding and signed zeros are not modelled.            *)
(* An attribute that has not been assigned is the empty tuple.             *)
(*                                                                         *)
(* A model given as an object with coef_ and intercept_, and data given as *)
(* a raw array or a DataFrame, reach the same code as the pairs            *)
(* (coef, intercept) and (mean, cov) and are modelled as those pairs.  The *)
(* pandas branches of shap_values convert to an array and are left out.    *)
(* np.int and the shapes of coef, mean and cov are taken to be valid.      *)
(***************************************************************************)
EXTENDS Integers, Sequences, FiniteSets, TLC

-----------------------------------------------------------------------------
(* Bounds of the model *)

MaxM == 3
MaxSamples == 2
MaxRows == 2

(* The default of the nsamples parameter. *)
DefaultNSamples == 1000

VarVals == {1, 2}
CovarVals == {0, 1}
InterceptVals == {1}
MaxSteps == 6

Unset == <<>>

-----------------------------------------------------------------------------
(* float64 arithmetic, exact, with inf and nan *)

Abs(a) == IF a < 0 THEN -a ELSE a

Sgn(a) == IF a < 0 THEN -1 ELSE IF a > 0 THEN 1 ELSE 0

RECURSIVE GCD(_, _)
GCD(a, b) == IF b = 0 THEN a ELSE GCD(b, a % b)

Norm(n, d) ==
    IF d = 0 THEN <<Sgn(n), 0>>
    ELSE LET g == GCD(Abs(n), Abs(d))
         IN  <<(Sgn(d) * n) \div g, Abs(d) \div g>>

Q(n) == <<n, 1>>

NaN == <<0, 0>>

IsFinite(a) == a[2] # 0

Add(a, b) ==
    IF IsFinite(a) /\ IsFinite(b) THEN Norm(a[1] * b[2] + b[1] * a[2], a[2] * b[2])
    ELSE IF a = NaN \/ b = NaN THEN NaN
    ELSE IF ~IsFinite(a) /\ ~IsFinite(b) THEN (IF a = b THEN a ELSE NaN)
    ELSE IF IsFinite(a) THEN b ELSE a

Neg(a) == <<-a[1], a[2]>>

Sub(a, b) == Add(a, Neg(b))

Mul(a, b) == Norm(a[1] * b[1], a[2] * b[2])

Div(a, b) ==
    IF IsFinite(a) /\ IsFinite(b) THEN Norm(a[1] * b[2], a[2] * b[1])
    ELSE IF IsFinite(b) THEN Mul(a, Q(IF b[1] < 0 THEN -1 ELSE 1))
    ELSE IF IsFinite(a) /\ b # NaN THEN Q(0)
    ELSE NaN

(* <<Op(1), ..., Op(n)>>, every entry computed once *)
RECURSIVE Tab(_, _)
Tab(Op(_), n) == IF n = 0 THEN <<>> ELSE Append(Tab(Op, n - 1), Op(n))

RECURSIVE SumSeq(_)
SumSeq(s) == IF s = <<>> THEN Q(0) ELSE Add(s[1], SumSeq(Tail(s)))

(* a @ b for two vectors of the same length *)
Dot(a, b) == SumSeq(Tab(LAMBDA p : Mul(a[p], b[p]), Len(a)))

(* A @ v for a matrix given by its rows *)
MatVec(A, v) == Tab(LAMBDA p : Dot(A[p], v), Len(A))

QVec(v) == Tab(LAMBDA p : Q(v[p]), Len(v))

Zeros(n, m) == Tab(LAMBDA p : Tab(LAMBDA q : Q(0), m), n)

-----------------------------------------------------------------------------
(* The explainer *)

VARIABLES
    pc,                 \* "new", "loop", "inner", "ready" or "raised"
    nsamples,           \* self.nsamples
    feature_dependence, \* self.feature_dependence
    coef,               \* self.coef
    intercept,          \* self.intercept
    mean,               \* self.mean
    cov,                \* self.cov
    mean_transformed,   \* self.mean_transformed
    self_x_transform,   \* self.x_transform
    expected_value,     \* self.expected_value
    warned,             \* a warning was issued
    mean_transform,     \* _estimate_transforms: mean_transform
    x_transform,        \* _estimate_transforms: x_transform
    inds,               \* _estimate_transforms: inds
    trial,              \* _estimate_transforms: trials completed
    j,                  \* _estimate_transforms: inner steps completed in the trial
    cov_inv_SiSi,       \* _estimate_transforms: cov_inv_SiSi
    cov_Si,             \* _estimate_transforms: cov_Si
    us,                 \* _estimate_transforms: every value u has taken so far
    ret                 \* what the last call returned or raised

vars == <<pc, nsamples, feature_dependence, coef, intercept, mean, cov,
          mean_transformed, self_x_transform, expected_value, warned,
          mean_transform, x_transform, inds, trial, j, cov_inv_SiSi, cov_Si,
          us, ret>>

attrs == <<nsamples, feature_dependence, coef, intercept, mean, cov,
           mean_transformed, self_x_transform, expected_value, warned>>

locals == <<mean_transform, x_transform, inds, trial, j, cov_inv_SiSi, cov_Si, us>>

M == Len(coef)

NoX == [type |-> "none", shape |-> <<>>, rows |-> <<>>]

NoRet == [op |-> "none", err |-> "", X |-> NoX, shape |-> <<>>, val |-> <<>>]

Raised(op, err, X) == [op |-> op, err |-> err, X |-> X, shape |-> <<>>, val |-> <<>>]

Returned(op, X, shape, val) == [op |-> op, err |-> "", X |-> X, shape |-> shape, val |-> val]

-----------------------------------------------------------------------------
(* _estimate_transforms *)

Perms(n) == {s \in [1..n -> 1..n] : \A a, b \in 1..n : s[a] = s[b] => a = b}

(* self.cov[:, inds[:n]] *)
CovColumns(c, perm, n) == Tab(LAMBDA f : Tab(LAMBDA p : Q(c[f][perm[p]]), n), Len(c))

(* d = cov_Si[i, :-1].T *)
d_of(new_cov_Si, i) == SubSeq(new_cov_Si[i], 1, Len(new_cov_Si[i]) - 1)

(* t = cov_inv_SS @ d *)
t_of(cov_inv_SS, d) == MatVec(cov_inv_SS, d)

(* u = Z - t.T @ d, with Z = cov[i, i] *)
u_of(c, i, t, d) == Sub(Q(c[i][i]), Dot(t, d))

(* CovInvUpdate with the sign of the cross terms lost *)
CovInvUpdate_PlusCross(cov_inv_SS, t, u) ==
    LET n == Len(cov_inv_SS) + 1
    IN  Tab(LAMBDA p : Tab(LAMBDA q :
            IF p = n /\ q = n THEN Div(Q(1), u)
            ELSE IF p < n /\ q < n THEN Add(cov_inv_SS[p][q], Div(Mul(t[p], t[q]), u))
            ELSE IF p < n THEN Div(t[p], u)
            ELSE Div(t[q], u), n), n)

(* the new cov_inv_SiSi from cov_inv_SS *)
CovInvUpdate(cov_inv_SS, t, u) ==
    LET n == Len(cov_inv_SS) + 1
    IN  Tab(LAMBDA p : Tab(LAMBDA q :
            IF p = n /\ q = n THEN Div(Q(1), u)
            ELSE IF n - 1 > 0
            THEN IF p < n /\ q < n THEN Add(cov_inv_SS[p][q], Div(Mul(t[p], t[q]), u))
                 ELSE IF p < n THEN Div(Neg(t[p]), u)
                 ELSE Div(Neg(t[q]), u)
            ELSE Q(0), n), n)

(* (A @ B)[f] for A given by its rows, B an n x n matrix *)
MatMulRow(Arow, B) == Tab(LAMBDA p : SumSeq(Tab(LAMBDA q : Mul(Arow[q], B[q][p]), Len(B))), Len(B))

(* self.coef[inds[from:]] @ (cov_X @ cov_inv)[inds[from:]], from counted from 0 *)
coef_R(cf, perm, from, cov_X, cov_inv) ==
    LET R == Tab(LAMBDA f : MatMulRow(cov_X[f], cov_inv), Len(perm))
    IN  Tab(LAMBDA p :
              SumSeq(Tab(LAMBDA k : Mul(Q(cf[perm[from + k]]), R[perm[from + k]][p]),
                         Len(perm) - from)),
            Len(cov_inv))

(* T[i, perm[:n]] += vals *)
AddAt(T, i, perm, n, vals) ==
    [T EXCEPT ![i] = Tab(LAMBDA c :
        IF \E p \in 1..n : perm[p] = c
        THEN Add(T[i][c], vals[CHOOSE p \in 1..n : perm[p] = c])
        ELSE T[i][c], Len(T[i]))]

(* Accumulate with the R(S) term added where it is to be subtracted *)
Accumulate_AddsRS(T, cf, i, perm, n, coef_R_Si, coef_R_S) ==
    LET T1 == [T EXCEPT ![i][i] = Add(T[i][i], Q(cf[i]))]
        T2 == AddAt(T1, i, perm, n + 1, coef_R_Si)
    IN  AddAt(T2, i, perm, n, coef_R_S)

(* The three updates of row i of an accumulator in one inner step. *)
Accumulate(T, cf, i, perm, n, coef_R_Si, coef_R_S) ==
    LET T1 == [T EXCEPT ![i][i] = Add(T[i][i], Q(cf[i]))]
        T2 == AddAt(T1, i, perm, n + 1, coef_R_Si)
    IN  AddAt(T2, i, perm, n, Tab(LAMBDA p : Neg(coef_R_S[p]), n))

(* DivideBy with the division left out *)
DivideBy_Skipped(T, n) == T

(* T /= n *)
DivideBy(T, n) == Tab(LAMBDA p : Tab(LAMBDA q : Div(T[p][q], Q(n)), Len(T[p])), Len(T))

-----------------------------------------------------------------------------
(* Inputs *)

(* Coefficient vectors that span the space: -1 everywhere, but for at most one 2. *)
Coefs(m) == {[c \in 1..m |-> IF c = h THEN 2 ELSE -1] : h \in 0..m}

(* the zero vector, the unit vectors and the all-ones vector of length k *)
Vecs(k) == {[c \in 1..k |-> IF c = h THEN 1 ELSE 0] : h \in 0..k} \cup {[c \in 1..k |-> 1]}

Pairs(m) == {pr \in (1..m) \X (1..m) : pr[1] < pr[2]}

(* The symmetric m x m matrices with variances in VarVals and covariances in
   CovarVals, in which either only neighbouring features covary or every pair
   covaries alike.  Up to a renaming of the features these are all such
   matrices for m <= 3. *)
Covs(m) ==
    {[a \in 1..m |-> [b \in 1..m |->
         IF a = b THEN dg[a] ELSE IF a < b THEN off[<<a, b>>] ELSE off[<<b, a>>]]] :
       dg \in [1..m -> VarVals],
       off \in {o \in [Pairs(m) -> CovarVals] :
                  \/ \A pr \in Pairs(m) : pr[2] - pr[1] > 1 => o[pr] = 0
                  \/ \A pr, ps \in Pairs(m) : o[pr] = o[ps]}}

(* unit variances and one common covariance: the identity and the all-ones matrix *)
PlainCovs(m) == {c \in Covs(m) : \A a, b \in 1..m : c[a][a] = 1 /\ (a # b => c[a][b] = c[1][m])}

NSamplesVals == (-1..MaxSamples) \cup {DefaultNSamples}

Modes == {"correlation", "interventional", "conditional"}

(* numpy arrays of rank 1 (rows holds the one vector) and of rank 2 *)
Array1(v) == [type |-> "ndarray", shape |-> <<Len(v)>>, rows |-> <<v>>]

Array2(n, v) ==
    [type |-> "ndarray", shape |-> <<n, Len(v)>>,
     rows |-> Tab(LAMBDA r : Tab(LAMBDA c : v[c] + r - 1, Len(v)), n)]

(* a rank-0 array, a rank-3 array, and a plain list *)
OtherQueries ==
    {[type |-> "ndarray", shape |-> <<>>, rows |-> <<>>],
     [type |-> "ndarray", shape |-> <<1, 1, 1>>, rows |-> <<>>],
     [type |-> "list", shape |-> <<1>>, rows |-> <<>>]}

(* arrays whose feature axis has the fitted length m *)
FittingQueries(m) == {Array1(v) : v \in Vecs(m)}

Queries(m) ==
    FittingQueries(m)
    \cup {Array2(n, [c \in 1..m |-> 1]) : n \in 1..MaxRows}
    \cup {Array1([c \in 1..k |-> 1]) : k \in (1..(m + 1)) \ {m}}
    \cup {Array2(MaxRows, [c \in 1..k |-> 1]) : k \in (1..(m + 1)) \ {m}}
    \cup OtherQueries

-----------------------------------------------------------------------------
(* __init__ *)

Init ==
    /\ pc = "new"
    /\ nsamples = 0
    /\ feature_dependence = ""
    /\ coef = Unset
    /\ intercept = Unset
    /\ mean = Unset
    /\ cov = Unset
    /\ mean_transformed = Unset
    /\ self_x_transform = Unset
    /\ expected_value = Unset
    /\ warned = FALSE
    /\ mean_transform = Unset
    /\ x_transform = Unset
    /\ inds = Unset
    /\ trial = 0
    /\ j = 0
    /\ cov_inv_SiSi = Unset
    /\ cov_Si = Unset
    /\ us = Unset
    /\ ret = NoRet

(* What __init__ does up to the call of _estimate_transforms, or to its end
   when the estimator is not run. *)
Construct(model, data, ns, mode) ==
    /\ pc = "new"
    /\ nsamples' = ns
    /\ feature_dependence' = mode
    /\ expected_value' = expected_value
    /\ UNCHANGED <<mean_transformed, self_x_transform, cov_inv_SiSi, cov_Si, us, j>>
    /\ IF model.kind # "tuple"
       THEN /\ pc' = "raised"
            /\ ret' = Raised("__init__", "Exception: unknown model type", NoX)
            /\ UNCHANGED <<coef, intercept, mean, cov, warned, mean_transform, x_transform, inds, trial>>
       ELSE /\ coef' = model.coef
            /\ intercept' = <<Q(model.intercept)>>
            /\ IF data.kind = "tuple"
               THEN mean' = data.mean /\ cov' = data.cov
               ELSE UNCHANGED <<mean, cov>>
            /\ IF data.kind = "None" /\ mode = "correlation"
               THEN /\ pc' = "raised"
                    /\ ret' = Raised("__init__", "Exception: no background data", NoX)
                    /\ UNCHANGED <<warned, mean_transform, x_transform, inds, trial>>
               ELSE IF mode = "correlation"
               THEN IF cov' = Unset
                    THEN /\ pc' = "raised"
                         /\ ret' = Raised("__init__", "AttributeError: cov", NoX)
                         /\ UNCHANGED <<warned, mean_transform, x_transform, inds, trial>>
                    ELSE /\ mean_transform' = Zeros(Len(model.coef), Len(model.coef))
                         /\ x_transform' = Zeros(Len(model.coef), Len(model.coef))
                         /\ inds' = [p \in 1..Len(model.coef) |-> p]
                         /\ trial' = 0
                         /\ pc' = "loop"
                         /\ UNCHANGED <<warned, ret>>
               ELSE IF mode = "interventional"
               THEN /\ warned' = (ns # DefaultNSamples)
                    /\ pc' = "ready"
                    /\ ret' = Returned("__init__", NoX, <<>>, <<>>)
                    /\ UNCHANGED <<mean_transform, x_transform, inds, trial>>
               ELSE /\ pc' = "raised"
                    /\ ret' = Raised("__init__", "Exception: unknown feature_dependence", NoX)
                    /\ UNCHANGED <<warned, mean_transform, x_transform, inds, trial>>

(* for _ in range(nsamples): np.random.shuffle(inds) and the reset of the inverse *)
Shuffle ==
    /\ pc = "loop"
    /\ trial < nsamples
    /\ \E perm \in Perms(M) : inds' = perm
    /\ cov_inv_SiSi' = <<>>
    /\ cov_Si' = Tab(LAMBDA f : <<>>, M)
    /\ j' = 0
    /\ pc' = "inner"
    /\ UNCHANGED <<attrs, mean_transform, x_transform, trial, us, ret>>

(* One pass of the body of for j in range(M).  Each local of the body is
   bound once, to the one value the code gives it. *)
InnerStep ==
    /\ pc = "inner"
    /\ j < M
    /\ \E i \in {inds[j + 1]}, cov_S \in {cov_Si}, cov_inv_SS \in {cov_inv_SiSi} :
       \E new_cov_Si \in {CovColumns(cov, inds, j + 1)} :
       \E d \in {d_of(new_cov_Si, i)} :
       \E t \in {t_of(cov_inv_SS, d)} :
       \E u \in {u_of(cov, i, t, d)} :
       \E new_inv \in {CovInvUpdate(cov_inv_SS, t, u)} :
       \E coef_R_Si \in {coef_R(coef, inds, j + 1, new_cov_Si, new_inv)} :
       \E coef_R_S \in {coef_R(coef, inds, j, cov_S, cov_inv_SS)} :
           /\ cov_Si' = new_cov_Si
           /\ cov_inv_SiSi' = new_inv
           /\ us' = Append(us, u)
           /\ mean_transform' = Accumulate(mean_transform, coef, i, inds, j, coef_R_Si, coef_R_S)
           /\ x_transform' = Accumulate(x_transform, coef, i, inds, j, coef_R_Si, coef_R_S)
    /\ j' = j + 1
    /\ IF j + 1 = M
       THEN pc' = "loop" /\ trial' = trial + 1
       ELSE pc' = "inner" /\ trial' = trial
    /\ UNCHANGED <<attrs, inds, ret>>

(* the division by nsamples, the return, and the rest of __init__ *)
Finish ==
    /\ pc = "loop"
    /\ ~(trial < nsamples)
    /\ mean_transform' = DivideBy(mean_transform, nsamples)
    /\ x_transform' = DivideBy(x_transform, nsamples)
    /\ mean_transformed' = MatVec(mean_transform', QVec(mean))
    /\ self_x_transform' = x_transform'
    /\ pc' = "ready"
    /\ ret' = Returned("__init__", NoX, <<>>, <<>>)
    /\ UNCHANGED <<nsamples, feature_dependence, coef, intercept, mean, cov, expected_value,
                   warned, inds, trial, j, cov_inv_SiSi, cov_Si, us>>

-----------------------------------------------------------------------------
(* shap_values *)

(* X @ self.x_transform.T - self.mean_transformed for one row of X *)
CorrelationRow(xrow, xt, mt) ==
    Tab(LAMBDA i : Sub(Dot(QVec(xrow), xt[i]), mt[i]), Len(xt))

(* the length of the broadcast of two axes, 0 when they do not broadcast *)
Broadcast(a, b) == IF a = b THEN a ELSE IF a = 1 THEN b ELSE IF b = 1 THEN a ELSE 0

At(v, c) == IF Len(v) = 1 THEN v[1] ELSE v[c]

(* InterventionalRow with the parentheses lost: coef * X - mean *)
InterventionalRow_Unbracketed(xrow, cf, mn, n) ==
    Tab(LAMBDA c : Sub(Mul(Q(At(cf, c)), Q(At(xrow, c))), Q(At(mn, c))), n)

(* self.coef * (X - self.mean) for one row of X, broadcast to length n *)
InterventionalRow(xrow, cf, mn, n) ==
    Tab(LAMBDA c : Mul(Q(At(cf, c)), Sub(Q(At(xrow, c)), Q(At(mn, c)))), n)

ShapeOf(X, n) == IF Len(X.shape) = 1 THEN <<n>> ELSE <<X.shape[1], n>>

shap_values(X) ==
    IF X.type # "ndarray" THEN Raised("shap_values", "AssertionError: type", X)
    ELSE IF ~(Len(X.shape) = 1 \/ Len(X.shape) = 2)
    THEN Raised("shap_values", "AssertionError: dimensions", X)
    ELSE LET K == X.shape[Len(X.shape)]
         IN  IF feature_dependence = "correlation"
             THEN IF K # M
                  THEN Raised("shap_values", "ValueError: matmul", X)
                  ELSE Returned("shap_values", X, ShapeOf(X, M),
                           Tab(LAMBDA r : CorrelationRow(X.rows[r], self_x_transform,
                                                         mean_transformed), Len(X.rows)))
             ELSE IF mean = Unset
                  THEN Raised("shap_values", "AttributeError: mean", X)
                  ELSE IF Broadcast(K, M) = 0
                  THEN Raised("shap_values", "ValueError: broadcast", X)
                  ELSE Returned("shap_values", X, ShapeOf(X, Broadcast(K, M)),
                           Tab(LAMBDA r : InterventionalRow(X.rows[r], coef, mean,
                                                            Broadcast(K, M)), Len(X.rows)))

ShapValues ==
    /\ pc = "ready"
    /\ \E X \in Queries(M) : ret' = shap_values(X)
    /\ UNCHANGED <<pc, attrs, locals>>

-----------------------------------------------------------------------------
(* The explainer's life: any construction, then any calls of shap_values. *)

Models ==
    {[kind |-> "tuple", coef |-> cf, intercept |-> b] :
        cf \in UNION {Coefs(m) : m \in 1..MaxM}, b \in InterceptVals}
    \cup {[kind |-> "other", coef |-> <<>>, intercept |-> 0]}

Datas(m) ==
    {[kind |-> "tuple", mean |-> mn, cov |-> cv] : mn \in Vecs(m), cv \in PlainCovs(m)}
    \cup {[kind |-> "None", mean |-> <<>>, cov |-> <<>>],
          [kind |-> "list", mean |-> <<>>, cov |-> <<>>]}

Build ==
    /\ pc = "new"
    /\ \E model \in Models, ns \in NSamplesVals, mode \in Modes :
       \E data \in Datas(IF model.kind = "tuple" THEN Len(model.coef) ELSE 1) :
        /\ (mode = "correlation" /\ data.kind = "tuple") => ns * Len(model.coef) <= MaxSteps
        /\ Construct(model, data, ns, mode)

Next == Build \/ Shuffle \/ InnerStep \/ Finish \/ ShapValues

Spec == Init /\ [][Next]_vars

-----------------------------------------------------------------------------
(* The estimator: constructions in correlation mode over every covariance of
   Covs, every coefficient vector of Coefs and every sequence of permutations. *)

EstMean(m) == [c \in 1..m |-> c]

BuildEst ==
    /\ pc = "new"
    /\ \E m \in 1..MaxM, ns \in 1..MaxSamples :
       \E cf \in Coefs(m), b \in InterceptVals, cv \in Covs(m) :
        /\ ns * m <= MaxSteps
        /\ Construct([kind |-> "tuple", coef |-> cf, intercept |-> b],
                     [kind |-> "tuple", mean |-> EstMean(m), cov |-> cv], ns, "correlation")

NextEst == BuildEst \/ Shuffle \/ InnerStep \/ Finish

SpecEst == Init /\ [][NextEst]_vars

-----------------------------------------------------------------------------
(* Notions the properties are stated in *)

NonZero(q) == IsFinite(q) /\ q[1] # 0

Positive(q) == IsFinite(q) /\ q[1] > 0

(* the values of u in the current trial (the last trial, between trials) *)
TrialUs == SubSeq(us, Len(us) - j + 1, Len(us))

ColSum(T, k) == SumSeq(Tab(LAMBDA i : T[i][k], Len(T)))

Diagonal(c) == \A a, b \in 1..Len(c) : a # b => c[a][b] = 0

DiagOf(v) == Tab(LAMBDA a : Tab(LAMBDA b : IF a = b THEN Q(v[a]) ELSE Q(0), Len(v)), Len(v))

(* cov[inds[:n], inds[:n]] *)
SubCov(n) == Tab(LAMBDA p : Tab(LAMBDA q : Q(cov[inds[p]][inds[q]]), n), n)

MatMul(A, B) == Tab(LAMBDA p : MatMulRow(A[p], B), Len(A))

(* the model's output on x less the intercept, as an integer *)
Linear(x) == LET RECURSIVE S(_)
                 S(k) == IF k = 0 THEN 0 ELSE S(k - 1) + coef[k] * x[k]
             IN  S(Len(coef))

Fits(X) == /\ X.type = "ndarray"
           /\ Len(X.shape) \in {1, 2}
           /\ X.shape[Len(X.shape)] = M

Estimating == pc \in {"loop", "inner"}

(* The two accumulators hold the same values at every point of the estimation
   and on return. *)
AccumulatorsEqual == mean_transform = x_transform

-----------------------------------------------------------------------------
(* C1: completeness in correlation mode.  After a construction in correlation
   mode with nsamples >= 1 in which no conditional variance u was zero, every
   column k of x_transform and of mean_transform sums to coef[k], and the
   entries of shap_values(x) sum to coef.x - coef.mean for every query x of
   the fitted length. *)
C1_Completeness ==
    (pc = "ready" /\ feature_dependence = "correlation" /\ nsamples >= 1
       /\ \A p \in 1..Len(us) : NonZero(us[p]))
    => /\ \A k \in 1..M : /\ ColSum(self_x_transform, k) = Q(coef[k])
                          /\ ColSum(mean_transform, k) = Q(coef[k])
       /\ \A X \in FittingQueries(M) :
            /\ shap_values(X).err = ""
            /\ SumSeq(shap_values(X).val[1]) = Q(Linear(X.rows[1]) - Linear(mean))

C1_Witness ==
    /\ pc = "ready" /\ feature_dependence = "correlation" /\ nsamples = 2 /\ M = 3
    /\ \A p \in 1..Len(us) : NonZero(us[p])
    /\ \A a, b \in 1..M : self_x_transform[a][b] # Q(0)
    /\ \E a, b \in 1..M : self_x_transform[a][b][2] # 1

-----------------------------------------------------------------------------
(* C2: exactness in interventional mode.  With a background (mean, cov)
   supplied, shap_values on a query of the fitted length returns
   coef[c] * (x[c] - mean[c]) in every place, whatever nsamples is, and the
   estimator has not run. *)
C2_Exactness ==
    (ret.op = "shap_values" /\ feature_dependence = "interventional"
       /\ mean # Unset /\ Fits(ret.X))
    => /\ ret.err = ""
       /\ ret.shape = ret.X.shape
       /\ \A r \in 1..Len(ret.X.rows) : \A c \in 1..M :
             ret.val[r][c] = Q(coef[c] * (ret.X.rows[r][c] - mean[c]))
       /\ mean_transform = Unset /\ x_transform = Unset /\ self_x_transform = Unset
       /\ us = Unset /\ trial = 0

C2_Witness ==
    /\ ret.op = "shap_values" /\ feature_dependence = "interventional"
    /\ mean # Unset /\ Fits(ret.X) /\ M = 3 /\ nsamples = 0
    /\ Len(ret.X.shape) = 2 /\ ret.X.shape[1] = 2
    /\ \E c \in 1..M : mean[c] # 0 /\ ret.val[2][c] # Q(0)

-----------------------------------------------------------------------------
(* C3: a degenerate covariance is rejected.  A construction in correlation
   mode in which some conditional variance u was not positive does not
   complete. *)
C3_DegenerateRejected ==
    (feature_dependence = "correlation" /\ \E p \in 1..Len(us) : ~Positive(us[p]))
    => pc # "ready"

-----------------------------------------------------------------------------
(* C4: a sample count that is not positive is rejected.  No explainer is
   constructed in correlation mode with nsamples <= 0: the estimator is not
   entered and returns no transforms. *)
C4_NSamplesRejected ==
    (feature_dependence = "correlation" /\ nsamples <= 0) => ~(Estimating \/ pc = "ready")

-----------------------------------------------------------------------------
(* C5: after a successful construction the explainer holds expected_value,
   equal to coef.mean + intercept. *)
C5_ExpectedValue ==
    (pc = "ready" /\ mean # Unset)
    => expected_value = <<Add(Q(Linear(mean)), intercept[1])>>

-----------------------------------------------------------------------------
(* C6: mode equivalence under independence.  When cov is diagonal with
   positive variances, a construction in correlation mode with nsamples >= 1
   ends with x_transform = mean_transform = diag(coef), and shap_values gives
   every query what interventional mode gives it, coef * (x - mean). *)
C6_ModeEquivalence ==
    (pc = "ready" /\ feature_dependence = "correlation" /\ nsamples >= 1
       /\ Diagonal(cov) /\ \A a \in 1..M : cov[a][a] > 0)
    => /\ self_x_transform = DiagOf(coef)
       /\ mean_transform = DiagOf(coef)
       /\ \A X \in FittingQueries(M) :
            /\ shap_values(X).err = ""
            /\ shap_values(X).val[1] = InterventionalRow(X.rows[1], coef, mean, M)
            /\ \A c \in 1..M :
                  shap_values(X).val[1][c] = Q(coef[c] * (X.rows[1][c] - mean[c]))

C6_Witness ==
    /\ pc = "ready" /\ feature_dependence = "correlation" /\ nsamples = 2 /\ M = 3
    /\ Diagonal(cov) /\ cov[1][1] # cov[2][2]
    /\ coef[1] # coef[2]

-----------------------------------------------------------------------------
(* C7: query-time validation.  In both modes a call of shap_values on an array
   whose rank is not 1 or 2, or whose feature axis is not of length M, raises
   an error. *)
C7_QueryValidated ==
    (ret.op = "shap_values" /\ ret.X.type = "ndarray" /\ ~Fits(ret.X)) => ret.err # ""

-----------------------------------------------------------------------------
(* C8: the incremental inverse.  At every point of every trial, if no
   conditional variance u of the trial was zero, cov_inv_SiSi is the inverse
   of the covariance of the features taken so far, in the order of the
   permutation; it has one row per feature taken, so it is the empty matrix
   at the start of every trial. *)
C8_IncrementalInverse ==
    Estimating
    => /\ Len(cov_inv_SiSi) = j
       /\ (\A p \in 1..j : NonZero(TrialUs[p]))
            => /\ MatMul(cov_inv_SiSi, SubCov(j)) = DiagOf([p \in 1..j |-> 1])
               /\ MatMul(SubCov(j), cov_inv_SiSi) = DiagOf([p \in 1..j |-> 1])

C8_Witness ==
    /\ pc = "loop" /\ j = 3 /\ trial = 1
    /\ \A p \in 1..j : NonZero(TrialUs[p])
    /\ \A a, b \in 1..j : cov_inv_SiSi[a][b] # Q(0)
    /\ \E a, b \in 1..j : cov_inv_SiSi[a][b][2] # 1

-----------------------------------------------------------------------------
(* C9: the two accumulators are equal throughout, and so the attribution of
   the query x = mean in correlation mode is the zero vector. *)
C9_EqualAccumulators ==
    /\ AccumulatorsEqual
    /\ (ret.op = "shap_values" /\ feature_dependence = "correlation" /\ Fits(ret.X))
         => /\ ret.err = ""
            /\ \A r \in 1..Len(ret.X.rows) :
                  ret.X.rows[r] = mean => \A c \in 1..M : ret.val[r][c] = Q(0)

-----------------------------------------------------------------------------
(* C10: an explainer whose construction completed answers every call of
   shap_values on an array of shape (M,) or (N, M). *)
C10_ReadyAnswers ==
    (ret.op = "shap_values" /\ Fits(ret.X)) => ret.err = ""

====
